---------------------------- MODULE Spec2Model ----------------------------
(***************************************************************************)
(* Model of DevconnectPretixSyncService: the self-rescheduling sync loop   *)
(* (startSyncLoop / trySync / stop / replaceApi), the per-pair three-phase *)
(* orchestration (syncAllPretixForOrganizerAndEvent) and the phase bodies  *)
(* (saveEventInfo / saveItemsInfo / saveTickets).                          *)
(*                                                                         *)
(* Spec     : the scheduler, one pair configured (PairsSpec: two pairs).   *)
(*            Every startSyncLoop() call creates a loop                    *)
(*            (the closure of lines 275-278); each loop alternates between *)
(*            a cycle in flight and a pending timer.  The phases of a pair *)
(*            return true or false as the external system decides.         *)
(* FairSpec : Spec with the fairness the Node event loop gives: a pending  *)
(*            timer fires, an awaited promise settles.                     *)
(* RecSpec  : one pair's task with its data: the answers of Pretix, the    *)
(*            rows of the three tables, the writes of each phase.          *)
(* PairsRecSpec : the tasks of two pairs of one cycle, interleaved on the  *)
(*            shared tables.                                               *)
(* StopRecSpec : the task of RecSpec with stop() called during a cycle.     *)
(* HealSpec : the task of RecSpec against external data that stays         *)
(*            unchanged from a failed cycle until a cycle succeeds.        *)
(***************************************************************************)
EXTENDS Integers, Sequences, FiniteSets, TLC

\* ------------------------------------------------------------------ bounds
\* Number of loop closures that can be alive (cycle in flight or timer
\* pending) at the same time.
MaxLoops == 2
\* Number of replaceApi() calls; client k is the one installed by the k-th call.
MaxReplace == 1

Loops == 1..MaxLoops
\* The (organizer, event) pairs a configuration
\* (this.pretixAPI.config.organizers[].events) can hold.
Pairs == {"A", "B"}
\* this.timeout === undefined
NoTimeout == 0
PhaseOrder == <<"event", "items", "tickets">>

VARIABLES
    config,          \* the configured pairs, the same for every client
    pretixAPI,       \* this.pretixAPI: the client currently installed
    timeout,         \* this.timeout: NoTimeout, or the loop whose timer it is
    hasCompletedSyncSinceStarting,
    inFlight,        \* inFlight[l]: loop l is inside `await this.trySync()`
    timer,           \* timer[l]: "none" | "pending" | "cleared"
    stage,           \* stage[l]: "idle" | "pairs" | "reload"
    pc,              \* pc[l][p]: phase pair p's task is awaiting, or "done"
    phaseLog,        \* phaseLog[l][p]: the phases run so far and their results
    cycleApi,        \* cycleApi[l]: the client installed when the cycle started,
                     \* to which its fetchEvent calls were sent
    lastOutcome,     \* lastOutcome[l]: how loop l's trySync ended, until it is called again:
                     \* "none" | "ok" | "threw" (its catch block ran)
    rollbarReports,  \* loops whose trySync called reportError, until it is called again
    failedPairs,     \* failedPairs[l]: the pairs of which a phase returned false in
                     \* loop l's latest cycle, until its trySync is called again
    stopRequested,   \* the caller's last lifecycle call was stop()
    \* -- one pair's task, what Pretix answered it, and the local database
    pretixEvent,     \* the event name fetchEvent returned to the task, or NotFetched
    pretixItems,     \* the catalog fetchItems returned to the task, or NotFetched
    pretixOrders,    \* the orders fetchOrders returned to the task, or NotFetched
    eventsInfo,      \* pretix_events_info: the pair's event name, or NoRow
    itemsInfo,       \* devconnect_pretix_items_info: set of rows
    tickets,         \* devconnect_pretix_tickets: set of rows
    nextItemsInfoId, \* next serial id of devconnect_pretix_items_info
    nextTicketId,    \* next serial id of devconnect_pretix_tickets
    taskPc,          \* phase the pair's task is in: "idle", a phase, "done"
    taskEvent,       \* activeItemIDs of the event object the task was given
    taskLog,         \* phases the task has run, with the boolean each returned
    taskWrites,      \* the writes the task's latest phase has completed, in order
    \* -- the task of a second pair of the same cycle, on the same tables
    otherPc,         \* phase the second pair's task is in
    otherEvent,      \* activeItemIDs of the event object it was given
    otherLog,        \* phases it has run, with the boolean each returned
    \* -- the external data while it is held unchanged, and the failure history
    pretix,          \* what Pretix and the configuration hold for the pair, or
                     \* Unconstrained where every fetch is answered freely
    recovering       \* "yes": a cycle of the pair has failed and no cycle has had
                     \* its three phases succeed since; "no"; or "untracked"

serviceVars == <<config, pretixAPI, timeout, hasCompletedSyncSinceStarting,
                 inFlight, timer, stage, pc, phaseLog, cycleApi, lastOutcome,
                 rollbarReports, failedPairs, stopRequested>>

pretixVars == <<pretixEvent, pretixItems, pretixOrders>>
dbVars == <<eventsInfo, itemsInfo, tickets, nextItemsInfoId, nextTicketId>>
taskVars == <<taskPc, taskEvent, taskLog, taskWrites>>
otherVars == <<otherPc, otherEvent, otherLog>>
histVars == <<pretix, recovering>>
recVars == <<taskVars, otherVars, dbVars, pretixVars, histVars>>

vars == <<serviceVars, recVars>>

schedVars == <<config, pretixAPI, timeout, hasCompletedSyncSinceStarting, inFlight,
               timer, stopRequested>>

\* ----------------------------------------------------------------- helpers
Running(l) == inFlight[l] \/ timer[l] = "pending"

NeverStarted == \A l \in Loops : ~inFlight[l] /\ timer[l] = "none"

\* The timers after clearTimeout(this.timeout): clearing a timer that has
\* already fired (or was already cleared) is a no-op.
ClearTimeout(tm, h) ==
    IF h # NoTimeout /\ tm[h] = "pending" THEN [tm EXCEPT ![h] = "cleared"]
    ELSE tm

\* stop(): if (this.timeout) clearTimeout(this.timeout)
StopTimers(tm, h) == IF h # NoTimeout THEN ClearTimeout(tm, h) ELSE tm

\* A slot for a new closure: one with no cycle in flight and no pending timer.
FreeSlots(tm) == {l \in Loops : ~inFlight[l] /\ tm[l] # "pending"}
Min(S) == CHOOSE x \in S : \A y \in S : x <= y

\* Timer of loop l on entering the closure: no timer is armed before
\* `await this.trySync()` has resumed.
TimerOnEntryEager(l) == "pending"
TimerOnEntry(l) == "none"

\* Entering the closure `trySync` of startSyncLoop: this.trySync() -> sync()
\* runs synchronously up to the first await, so every pair task is created
\* and its fetchEvent is issued to the installed client, api.
EnterClosure(l, tm, api) ==
    /\ inFlight' = [inFlight EXCEPT ![l] = TRUE]
    /\ timer' = [tm EXCEPT ![l] = TimerOnEntry(l)]
    /\ stage' = [stage EXCEPT ![l] = "pairs"]
    /\ pc' = [pc EXCEPT ![l] =
                 [p \in Pairs |-> IF p \in config THEN "event" ELSE "idle"]]
    /\ phaseLog' = [phaseLog EXCEPT ![l] = [p \in Pairs |-> <<>>]]
    /\ cycleApi' = [cycleApi EXCEPT ![l] = api]
    /\ lastOutcome' = [lastOutcome EXCEPT ![l] = "none"]
    /\ rollbarReports' = rollbarReports \ {l}
    /\ failedPairs' = [failedPairs EXCEPT ![l] = {}]
    /\ UNCHANGED <<config, recVars>>

\* ------------------------------------------------------------------- Init
InitService ==
    /\ pretixAPI = 0
    /\ timeout = NoTimeout
    /\ hasCompletedSyncSinceStarting = FALSE
    /\ inFlight = [l \in Loops |-> FALSE]
    /\ timer = [l \in Loops |-> "none"]
    /\ stage = [l \in Loops |-> "idle"]
    /\ pc = [l \in Loops |-> [p \in Pairs |-> "idle"]]
    /\ phaseLog = [l \in Loops |-> [p \in Pairs |-> <<>>]]
    /\ cycleApi = [l \in Loops |-> 0]
    /\ lastOutcome = [l \in Loops |-> "none"]
    /\ rollbarReports = {}
    /\ failedPairs = [l \in Loops |-> {}]
    /\ stopRequested = FALSE


\* ---------------------------------------------------------------- actions
\* startSyncLoop(): creates the closure and calls it.  It is called once,
\* by startDevconnectPretixSyncService when the service is created; every
\* later loop is started by replaceApi.
StartSyncLoop ==
    /\ NeverStarted
    /\ FreeSlots(timer) # {}
    /\ EnterClosure(Min(FreeSlots(timer)), timer, pretixAPI)
    /\ stopRequested' = FALSE
    /\ UNCHANGED <<pretixAPI, timeout, hasCompletedSyncSinceStarting>>

\* A stop() that would end the task of a cycle in flight.
TaskPcAfterStopAborted ==
    IF taskPc \in {"event", "items", "tickets"} THEN "done" ELSE taskPc
\* The phase the pair's task is in after stop(): stop() clears the timer and
\* reaches no promise of a cycle in flight.
TaskPcAfterStop == taskPc

\* stop()
Stop ==
    /\ timer' = StopTimers(timer, timeout)
    /\ stopRequested' = TRUE
    /\ taskPc' = TaskPcAfterStop
    /\ UNCHANGED <<taskEvent, taskLog, taskWrites, otherVars, dbVars, pretixVars,
                   histVars, config, pretixAPI, timeout,
                   hasCompletedSyncSinceStarting, inFlight, stage, pc, phaseLog,
                   cycleApi, lastOutcome, rollbarReports, failedPairs>>

\* replaceApi(newAPI): wasRunning = !!this.timeout
ReplaceApi ==
    /\ pretixAPI < MaxReplace
    /\ pretixAPI' = pretixAPI + 1
    /\ hasCompletedSyncSinceStarting' = FALSE
    /\ stopRequested' = FALSE
    /\ UNCHANGED timeout
    /\ IF timeout # NoTimeout
       THEN LET stopped == StopTimers(timer, timeout) IN
            /\ FreeSlots(stopped) # {}
            /\ EnterClosure(Min(FreeSlots(stopped)), stopped, pretixAPI + 1)
       ELSE UNCHANGED <<recVars, config, inFlight, timer, stage, pc, phaseLog, cycleApi,
                        lastOutcome, rollbarReports, failedPairs>>

\* The timer of loop l fires: setTimeout(() => trySync(), 1000 * 60)
TimerFire(l) ==
    /\ timer[l] = "pending"
    /\ EnterClosure(l, timer, pretixAPI)
    /\ UNCHANGED <<pretixAPI, timeout, hasCompletedSyncSinceStarting,
                   stopRequested>>

\* syncAllPretixForOrganizerAndEvent: the phase after `phase`, given the
\* boolean the phase returned.
NextPhaseIgnoringFailure(phase, ok) ==
    CASE phase = "event" -> "items"
      [] phase = "items" -> "tickets"
      [] OTHER -> "done"
NextPhaseAfterFailedEvent(phase, ok) ==
    CASE phase = "event" -> "items"
      [] phase = "items" -> IF ok THEN "tickets" ELSE "done"
      [] OTHER -> "done"
NextPhaseRetrying(phase, ok) ==
    IF ~ok THEN phase
    ELSE CASE phase = "event" -> "items"
           [] phase = "items" -> "tickets"
           [] OTHER -> "done"
NextPhase(phase, ok) ==
    IF ~ok THEN "done"
    ELSE CASE phase = "event" -> "items"
           [] phase = "items" -> "tickets"
           [] OTHER -> "done"

\* The phase pair p of loop l is awaiting returns ok; on success the next
\* phase is entered and its fetch is issued to this.pretixAPI as it is now.
PhaseReturns(l, p, ok) ==
    /\ inFlight[l] /\ stage[l] = "pairs"
    /\ pc[l][p] \in {"event", "items", "tickets"}
    /\ LET next == NextPhase(pc[l][p], ok) IN
       /\ pc' = [pc EXCEPT ![l][p] = next]
       /\ phaseLog' = [phaseLog EXCEPT ![l][p] =
                          Append(@, [phase |-> pc[l][p], ok |-> ok])]
    /\ failedPairs' = IF ok THEN failedPairs
                      ELSE [failedPairs EXCEPT ![l] = @ \cup {p}]
    /\ UNCHANGED <<schedVars, stage, cycleApi, lastOutcome, rollbarReports,
                   recVars>>

\* A trySync that would count a failed phase of a pair as a failed cycle.
FlagAfterTrySyncUnlessPairFailed(ok) ==
    IF ok /\ \A l \in Loops : stage[l] = "reload" => failedPairs[l] = {}
    THEN TRUE
    ELSE hasCompletedSyncSinceStarting
\* hasCompletedSyncSinceStarting after trySync settled.
FlagAfterTrySyncFinally(ok) == TRUE
FlagAfterTrySync(ok) == IF ok THEN TRUE ELSE hasCompletedSyncSinceStarting

\* Whether the closure arms the next timer after `await this.trySync()`:
\* trySync never rejects, so always.
RearmAfterTrySyncOnlyOnSuccess(ok) == ok
RearmAfterTrySync(ok) == TRUE

\* Loops whose latest trySync reported to rollbar.
ReportsAfterCatchSilent(l) == rollbarReports
ReportsAfterCatch(l) == rollbarReports \cup {l}

\* trySync settles (its try block completed, or its catch block ran), and the
\* closure resumes: this.timeout = setTimeout(...)
TrySyncSettles(l, ok) ==
    /\ hasCompletedSyncSinceStarting' = FlagAfterTrySync(ok)
    /\ lastOutcome' = [lastOutcome EXCEPT ![l] = IF ok THEN "ok" ELSE "threw"]
    /\ rollbarReports' = IF ok THEN rollbarReports \ {l} ELSE ReportsAfterCatch(l)
    /\ inFlight' = [inFlight EXCEPT ![l] = FALSE]
    /\ stage' = [stage EXCEPT ![l] = "idle"]
    /\ pc' = [pc EXCEPT ![l] = [p \in Pairs |-> "idle"]]
    /\ phaseLog' = [phaseLog EXCEPT ![l] = [p \in Pairs |-> <<>>]]
    /\ cycleApi' = [cycleApi EXCEPT ![l] = 0]
    /\ IF RearmAfterTrySync(ok)
       THEN timer' = [timer EXCEPT ![l] = "pending"] /\ timeout' = l
       ELSE UNCHANGED <<timer, timeout>>
    /\ UNCHANGED <<config, pretixAPI, stopRequested, failedPairs, recVars>>

\* await Promise.all(promises): every pair task of loop l's cycle has settled.
SomePromiseSettled(l) == \E p \in config : pc[l][p] = "done"
PromiseAllSettled(l) == \A p \in config : pc[l][p] = "done"

\* sync(): Promise.all resolved (every pair task settled) and sync returns;
\* trySync goes on to `await this.semaphoreService.reload()`.
SyncReturns(l) ==
    /\ inFlight[l] /\ stage[l] = "pairs"
    /\ PromiseAllSettled(l)
    /\ stage' = [stage EXCEPT ![l] = "reload"]
    /\ pc' = [pc EXCEPT ![l] = [p \in Pairs |-> "idle"]]
    /\ phaseLog' = [phaseLog EXCEPT ![l] = [p \in Pairs |-> <<>>]]
    /\ UNCHANGED <<schedVars, cycleApi, lastOutcome, rollbarReports, failedPairs,
                   recVars>>

\* sync() rejects (an unexpected error outside the per-pair handling).
SyncThrows(l) ==
    /\ inFlight[l] /\ stage[l] = "pairs"
    /\ PromiseAllSettled(l)
    /\ TrySyncSettles(l, FALSE)

\* semaphoreService.reload() settles.
ReloadSettles(l, ok) ==
    /\ inFlight[l] /\ stage[l] = "reload"
    /\ TrySyncSettles(l, ok)

Next ==
    \/ StartSyncLoop
    \/ Stop
    \/ ReplaceApi
    \/ \E l \in Loops : TimerFire(l)
    \/ \E l \in Loops, p \in Pairs, ok \in BOOLEAN : PhaseReturns(l, p, ok)
    \/ \E l \in Loops : SyncReturns(l)
    \/ \E l \in Loops : SyncThrows(l)
    \/ \E l \in Loops, ok \in BOOLEAN : ReloadSettles(l, ok)


\* A step of loop l that the event loop takes by itself: its timer fires, or
\* the promise its cycle is awaiting settles.
LoopProgress(l) ==
    \/ TimerFire(l)
    \/ \E p \in Pairs, ok \in BOOLEAN : PhaseReturns(l, p, ok)
    \/ SyncReturns(l)
    \/ \E ok \in BOOLEAN : ReloadSettles(l, ok)


\* ------------------------------------------------------------ reconciler
\* RecSpec: one (organizer, event) pair, one cycle at a time, with the data:
\* what Pretix answers to each fetch, what the phases read from and write to
\* the database.  Pretix answers each fetch with any value of its domain; the
\* event's activeItemIDs are those of the configuration at dispatch.

\* Bounds on the serial ids the tables hand out.
MaxItemsInfoId == 3
MaxTicketId == 3

\* The pair's eventConfigID.
EventConfigID == "A"
NoRow == "none"
NotFetched == "not fetched"
Unconstrained == "unconstrained"
\* The await at which a phase rejects, or "none": the fetch from Pretix, the
\* read of the existing rows, or the first insert, update or delete.
FailPoints == {"fetch", "read", "insert", "update", "delete", "none"}
EventNames == {"Devconnect", "Devconnect II"}

\* i.id.toString(), item.toString()
toString(n) == CASE n = 1 -> "1" [] n = 2 -> "2"

toLowerCaseIdentity(e) == e
\* String.prototype.toLowerCase on the e-mail addresses that occur.
toLowerCase(e) ==
    CASE e = "X@Y.com" -> "x@y.com"
      [] e = "Buyer@Y.com" -> "buyer@y.com"
      [] OTHER -> e

Item(id, name) == [id |-> id, name |-> name]
\* Catalogs fetchItems can return.
Catalogs ==
    { <<>>,
      <<Item(1, "GA")>>,
      <<Item(2, "VIP")>>,
      <<Item(1, "General"), Item(2, "VIP")>> }
\* Values of an event's activeItemIDs.
ActiveItemSets == {{"1"}, {"1", "2"}}

Position(item, name, email) ==
    [item |-> item, attendee_name |-> name, attendee_email |-> email]
Order(status, email, positions) ==
    [status |-> status, email |-> email, positions |-> positions]
\* Order lists fetchOrders can return; "" is an absent attendee_email.
OrderLists ==
    { <<>>,
      <<Order("p", "Buyer@Y.com", <<Position(1, "Ann", "X@Y.com")>>)>>,
      <<Order("n", "Buyer@Y.com", <<Position(1, "Ann", "X@Y.com")>>)>>,
      <<Order("p", "Buyer@Y.com",
              <<Position(1, "Bob", ""), Position(2, "Ann", "X@Y.com")>>)>>,
      <<Order("p", "Buyer@Y.com", <<Position(1, "Ann", "X@Y.com")>>),
        Order("p", "x@y.com", <<Position(1, "Bob", "")>>)>> }

Range(f) == {f[i] : i \in DOMAIN f}

\* fetchPretixItemsInfoByEvent
FetchPretixItemsInfoOfAllEvents(rows, eventConfigID) == rows
FetchPretixItemsInfoByEvent(rows, eventConfigID) ==
    {r \in rows : r.devconnect_pretix_events_info_id = eventConfigID}

\* new Map(rows.map((i) => [i.item_id, i])): a later row replaces an earlier
\* one with the same item_id.
ByItemID(rows) ==
    [k \in {r.item_id : r \in rows} |->
        CHOOSE r \in rows : /\ r.item_id = k
                            /\ \A q \in rows : q.item_id = k => q.id <= r.id]

\* saveItemsInfo: activeItemIDs.some((i) => !newItemIDsSet.has(i))
ActiveItemsMissingUnchecked(active, catalog) == FALSE
ActiveItemsMissing(active, catalog) ==
    \E i \in active : i \notin {toString(it.id) : it \in Range(catalog)}

\* saveItemsInfo: newActiveItems
NewActiveItems(active, catalog) ==
    SelectSeq(catalog, LAMBDA it : toString(it.id) \in active)

\* saveItemsInfo: itemsToInsert, itemsToUpdate, itemsToRemove
ItemsToInsert(newActive, existing) ==
    SelectSeq(newActive,
              LAMBDA it : toString(it.id) \notin DOMAIN ByItemID(existing))
ItemsToUpdate(newActive, existing) ==
    SelectSeq(newActive,
              LAMBDA it : /\ toString(it.id) \in DOMAIN ByItemID(existing)
                          /\ ByItemID(existing)[toString(it.id)].item_name # it.name)
ItemsToRemoveNone(newActive, existing) == {}
ItemsToRemove(newActive, existing) ==
    {r \in existing : r.item_id \notin {toString(it.id) : it \in Range(newActive)}}

\* The table after saveItemsInfo's three steps: insertPretixItemsInfo for each
\* new item, updatePretixItemsInfo by row id, deletePretixItemInfo by row id.
ItemsInfoAfterSave(rows, eventConfigID, active, catalog, failAt) ==
    LET newActive == NewActiveItems(active, catalog)
        existing == FetchPretixItemsInfoByEvent(rows, eventConfigID)
        toInsert == ItemsToInsert(newActive, existing)
        toUpdate == ItemsToUpdate(newActive, existing)
        toRemove == ItemsToRemove(newActive, existing)
        inserted == {[id |-> nextItemsInfoId + i - 1,
                      item_id |-> toString(toInsert[i].id),
                      devconnect_pretix_events_info_id |-> eventConfigID,
                      item_name |-> toInsert[i].name] : i \in DOMAIN toInsert}
        NewName(r) ==
            IF \E i \in DOMAIN toUpdate :
                  ByItemID(existing)[toString(toUpdate[i].id)].id = r.id
            THEN (CHOOSE it \in Range(toUpdate) :
                     ByItemID(existing)[toString(it.id)].id = r.id).name
            ELSE r.item_name
        afterInsert == IF failAt \in {"read", "insert"} THEN rows
                       ELSE rows \cup inserted
        afterUpdate == IF failAt \in {"read", "insert", "update"} THEN afterInsert
                       ELSE {[r EXCEPT !.item_name = NewName(r)] : r \in afterInsert}
    IN  IF failAt \in {"read", "insert", "update", "delete"} THEN afterUpdate
        ELSE {r \in afterUpdate : r.id \notin {d.id : d \in toRemove}}

IsPaidAlways(order) == TRUE
\* ordersToDevconnectTickets: `if (order.status !== "p") continue`
IsPaid(order) == order.status = "p"

EmailOfAttendeeOnly(pos, order) == pos.attendee_email
\* ordersToDevconnectTickets: `attendee_email || order.email`
EmailOf(pos, order) ==
    IF pos.attendee_email # "" THEN pos.attendee_email ELSE order.email

\* ordersToDevconnectTickets: the tickets of one order
OrderToTickets(order, itemsInfoRows) ==
    IF ~IsPaid(order) THEN <<>>
    ELSE LET byItem == ByItemID(itemsInfoRows)
             kept == SelectSeq(order.positions,
                               LAMBDA pos : toString(pos.item) \in DOMAIN byItem)
         IN  [i \in DOMAIN kept |->
                [email |-> toLowerCase(EmailOf(kept[i], order)),
                 full_name |-> kept[i].attendee_name,
                 devconnect_pretix_items_info_id |->
                     byItem[toString(kept[i].item)].id,
                 is_deleted |-> FALSE]]

RECURSIVE OrdersToDevconnectTickets(_, _)
OrdersToDevconnectTickets(orders, itemsInfoRows) ==
    IF orders = <<>> THEN <<>>
    ELSE OrderToTickets(Head(orders), itemsInfoRows)
            \o OrdersToDevconnectTickets(Tail(orders), itemsInfoRows)

\* getEmailAndItemKey
GetEmailAndItemKey(t) == <<t.email, t.devconnect_pretix_items_info_id>>

\* pretixTicketsDifferent
PretixTicketsDifferent(old, new) ==
    \/ old.full_name # new.full_name
    \/ old.devconnect_pretix_items_info_id # new.devconnect_pretix_items_info_id

\* A fetch that would also return the soft-deleted tickets of the event.
FetchDevconnectPretixTicketsByEventWithDeleted(ticketRows, itemRows, eventConfigID) ==
    {t \in ticketRows :
        t.devconnect_pretix_items_info_id \in
            {r.id : r \in FetchPretixItemsInfoByEvent(itemRows, eventConfigID)}}

\* fetchDevconnectPretixTicketsByEvent: the event's tickets that are not
\* soft-deleted, found through the items_info row each belongs to.
FetchDevconnectPretixTicketsByEvent(ticketRows, itemRows, eventConfigID) ==
    {t \in ticketRows :
        /\ ~t.is_deleted
        /\ t.devconnect_pretix_items_info_id \in
              {r.id : r \in FetchPretixItemsInfoByEvent(itemRows, eventConfigID)}}

\* The orders in which a query without ORDER BY can return the rows S.
Orderings(S) ==
    {q \in [1..Cardinality(S) -> S] : \A r \in S : \E i \in DOMAIN q : q[i] = r}

\* ticketsToMapByEmailAndItem(list).get(key): the last ticket of a key stays.
LastOfKey(list, key) ==
    list[CHOOSE i \in DOMAIN list :
            /\ GetEmailAndItemKey(list[i]) = key
            /\ \A j \in DOMAIN list :
                  GetEmailAndItemKey(list[j]) = key => j <= i]

Keys(S) == {GetEmailAndItemKey(t) : t \in S}

\* saveTickets: newTickets, updatedTickets, removedTickets, from the projected
\* tickets and existingTickets, both lists.
NewTickets(projected, existing) ==
    SelectSeq(projected,
              LAMBDA t : GetEmailAndItemKey(t) \notin Keys(Range(existing)))
UpdatedTickets(projected, existing) ==
    SelectSeq(projected,
              LAMBDA t : /\ GetEmailAndItemKey(t) \in Keys(Range(existing))
                         /\ PretixTicketsDifferent(
                                LastOfKey(existing, GetEmailAndItemKey(t)), t))
RemovedTickets(projected, existing) ==
    SelectSeq(existing,
              LAMBDA old : GetEmailAndItemKey(old) \notin Keys(Range(projected)))

\* The table after saveTickets' three steps: insertDevconnectPretixTicket for
\* each new ticket, updateDevconnectPretixTicket (by email and item) for each
\* changed one, softDeleteDevconnectPretixTicket for each removed one.
TicketsAfterSave(ticketRows, projected, existing, failAt) ==
    LET toInsert == NewTickets(projected, existing)
        toUpdate == UpdatedTickets(projected, existing)
        toRemove == RemovedTickets(projected, existing)
        inserted == {[id |-> nextTicketId + i - 1,
                      email |-> toInsert[i].email,
                      full_name |-> toInsert[i].full_name,
                      devconnect_pretix_items_info_id |->
                          toInsert[i].devconnect_pretix_items_info_id,
                      is_deleted |-> toInsert[i].is_deleted] : i \in DOMAIN toInsert}
        Live(r) == ~r.is_deleted
        afterInsert == IF failAt \in {"read", "insert"} THEN ticketRows
                       ELSE ticketRows \cup inserted
        afterUpdate ==
            IF failAt \in {"read", "insert", "update"} THEN afterInsert
            ELSE {IF Live(r) /\ GetEmailAndItemKey(r) \in Keys(Range(toUpdate))
                  THEN [r EXCEPT !.full_name =
                           LastOfKey(toUpdate, GetEmailAndItemKey(r)).full_name]
                  ELSE r : r \in afterInsert}
    IN  IF failAt \in {"read", "insert", "update", "delete"} THEN afterUpdate
        ELSE {IF Live(r) /\ GetEmailAndItemKey(r) \in Keys(Range(toRemove))
              THEN [r EXCEPT !.is_deleted = TRUE]
              ELSE r : r \in afterUpdate}

\* Whether a phase with nInsert rows to insert, nUpdate to update and nDelete
\* to delete can reject at failAt: a write that is not issued cannot reject.
CanRejectAt(failAt, nInsert, nUpdate, nDelete) ==
    CASE failAt = "insert" -> nInsert > 0
      [] failAt = "update" -> nUpdate > 0
      [] failAt = "delete" -> nDelete > 0
      [] OTHER -> TRUE

\* A phase that would issue its deletes before its inserts and updates.
WritesAppliedDeletesFirst(nInsert, nUpdate, nDelete, failAt) ==
    IF failAt = "none"
    THEN [i \in 1..nDelete |-> "delete"] \o [i \in 1..nInsert |-> "insert"]
            \o [i \in 1..nUpdate |-> "update"]
    ELSE <<>>
\* The writes a phase has completed when it returns: step 1 inserts, step 2
\* updates, step 3 deletes, up to the first query that rejects.
WritesApplied(nInsert, nUpdate, nDelete, failAt) ==
    LET inserts == [i \in 1..nInsert |-> "insert"]
        updates == [i \in 1..nUpdate |-> "update"]
        deletes == [i \in 1..nDelete |-> "delete"]
    IN  CASE failAt \in {"fetch", "read", "insert"} -> <<>>
          [] failAt = "update" -> inserts
          [] failAt = "delete" -> inserts \o updates
          [] OTHER -> inserts \o updates \o deletes

InitReconciler ==
    /\ pretixEvent = NotFetched
    /\ pretixItems = NotFetched
    /\ pretixOrders = NotFetched
    /\ eventsInfo = NoRow
    /\ itemsInfo = {}
    /\ tickets = {}
    /\ nextItemsInfoId = 1
    /\ nextTicketId = 1
    /\ taskPc = "idle"
    /\ taskEvent = {}
    /\ taskLog = <<>>
    /\ taskWrites = <<>>
    /\ otherPc = "idle"
    /\ otherEvent = {}
    /\ otherLog = <<>>

\* sync(): the pair's task is created with the event object of the
\* configuration (its activeItemIDs) and enters saveEventInfo.
SyncPair(active) ==
    /\ taskPc \in {"idle", "done"}
    /\ taskPc' = "event"
    /\ taskEvent' = active
    /\ taskLog' = <<>>
    /\ taskWrites' = <<>>
    /\ pretixEvent' = NotFetched
    /\ pretixItems' = NotFetched
    /\ pretixOrders' = NotFetched
    /\ UNCHANGED <<dbVars, otherVars, histVars, serviceVars>>

\* Whether the pair is recovering from a failed cycle once `phase` has
\* returned `ok`: a failed phase ends the cycle as a failed one, a successful
\* ticket phase ends a cycle whose three phases succeeded.
RecoveringAfter(phase, ok) ==
    CASE recovering = "untracked" -> "untracked"
      [] ~ok -> "yes"
      [] phase = "tickets" -> "no"
      [] OTHER -> recovering

\* A phase returns `ok` to syncAllPretixForOrganizerAndEvent.
TaskReturns(phase, ok) ==
    /\ taskPc' = NextPhase(phase, ok)
    /\ taskLog' = Append(taskLog, [phase |-> phase, ok |-> ok])
    /\ recovering' = RecoveringAfter(phase, ok)
    /\ UNCHANGED <<taskEvent, pretix, otherVars, serviceVars>>

\* saveEventInfo; Pretix answers fetchEvent with `name` unless failAt is
\* "fetch"; fetchPretixEventInfo rejects when failAt is "read"; the row is
\* inserted when there is none and updated otherwise, whatever its name.
SaveEventInfo(name, failAt) ==
    LET nInsert == IF eventsInfo = NoRow THEN 1 ELSE 0
        nUpdate == IF eventsInfo = NoRow THEN 0 ELSE 1
    IN  /\ taskPc = "event"
        /\ CanRejectAt(failAt, nInsert, nUpdate, 0)
        /\ pretixEvent' = IF failAt = "fetch" THEN NotFetched ELSE name
        /\ eventsInfo' = IF failAt = "none" THEN name ELSE eventsInfo
        /\ taskWrites' = WritesApplied(nInsert, nUpdate, 0, failAt)
        /\ TaskReturns("event", failAt = "none")
        /\ UNCHANGED <<pretixItems, pretixOrders, itemsInfo, tickets,
                       nextItemsInfoId, nextTicketId>>

\* saveItemsInfo; Pretix answers fetchItems with `catalog` unless failAt is
\* "fetch"; otherwise failAt is the first query that rejects.
SaveItemsInfo(catalog, failAt) ==
    /\ taskPc = "items"
    /\ UNCHANGED <<pretixEvent, pretixOrders, eventsInfo, tickets, nextTicketId>>
    /\ IF failAt = "fetch"
       THEN /\ TaskReturns("items", FALSE)
            /\ taskWrites' = <<>>
            /\ UNCHANGED <<pretixItems, itemsInfo, nextItemsInfoId>>
       ELSE /\ pretixItems' = catalog
            /\ IF ActiveItemsMissing(taskEvent, catalog)
               THEN /\ TaskReturns("items", FALSE)
                    /\ taskWrites' = <<>>
                    /\ UNCHANGED <<itemsInfo, nextItemsInfoId>>
               ELSE LET newActive == NewActiveItems(taskEvent, catalog)
                        existing ==
                            FetchPretixItemsInfoByEvent(itemsInfo, EventConfigID)
                        nInsert == Len(ItemsToInsert(newActive, existing))
                        nUpdate == Len(ItemsToUpdate(newActive, existing))
                        nDelete == Cardinality(ItemsToRemove(newActive, existing))
                        after == ItemsInfoAfterSave(itemsInfo, EventConfigID,
                                                    taskEvent, catalog, failAt)
                        used == {r.id : r \in after \cup itemsInfo}
                        top == IF used = {} THEN 0
                               ELSE CHOOSE m \in used : \A u \in used : u <= m
                    IN  /\ CanRejectAt(failAt, nInsert, nUpdate, nDelete)
                        /\ top <= MaxItemsInfoId
                        /\ itemsInfo' = after
                        /\ nextItemsInfoId' =
                              IF top >= nextItemsInfoId THEN top + 1
                              ELSE nextItemsInfoId
                        /\ taskWrites' =
                              WritesApplied(nInsert, nUpdate, nDelete, failAt)
                        /\ TaskReturns("items", failAt = "none")

\* saveTickets; Pretix answers fetchOrders with `orders` unless failAt is
\* "fetch"; otherwise failAt is the first query that rejects.
SaveTickets(orders, failAt) ==
    /\ taskPc = "tickets"
    /\ UNCHANGED <<pretixEvent, pretixItems, eventsInfo, itemsInfo,
                   nextItemsInfoId>>
    /\ IF failAt = "fetch"
       THEN /\ TaskReturns("tickets", FALSE)
            /\ taskWrites' = <<>>
            /\ UNCHANGED <<pretixOrders, tickets, nextTicketId>>
       ELSE LET updatedItemsInfo ==
                    FetchPretixItemsInfoByEvent(itemsInfo, EventConfigID)
                projected == OrdersToDevconnectTickets(orders, updatedItemsInfo)
            IN  \E existing \in Orderings(FetchDevconnectPretixTicketsByEvent(
                                             tickets, itemsInfo, EventConfigID)) :
                LET nInsert == Len(NewTickets(projected, existing))
                    nUpdate == Len(UpdatedTickets(projected, existing))
                    nDelete == Len(RemovedTickets(projected, existing))
                    after == TicketsAfterSave(tickets, projected, existing, failAt)
                    used == {r.id : r \in after}
                    top == IF used = {} THEN 0
                           ELSE CHOOSE m \in used : \A u \in used : u <= m
                IN
                /\ CanRejectAt(failAt, nInsert, nUpdate, nDelete)
                /\ top <= MaxTicketId
                /\ pretixOrders' = orders
                /\ tickets' = after
                /\ nextTicketId' = top + 1
                /\ taskWrites' = WritesApplied(nInsert, nUpdate, nDelete, failAt)
                /\ TaskReturns("tickets", failAt = "none")

RecNext ==
    \/ \E active \in ActiveItemSets : SyncPair(active)
    \/ \E name \in EventNames, failAt \in FailPoints : SaveEventInfo(name, failAt)
    \/ \E catalog \in Catalogs, failAt \in FailPoints :
          SaveItemsInfo(catalog, failAt)
    \/ \E orders \in OrderLists, failAt \in FailPoints :
          SaveTickets(orders, failAt)

\* ------------------------------------------------- two pairs, one database
\* PairsRecSpec: the tasks of two pairs of one cycle, interleaved at their
\* awaits, on the same tables.  The second pair's eventConfigID:
OtherEventConfigID == "B"

\* What Pretix answers the two tasks, and where a phase rejects.
PairCatalogs ==
    { <<Item(1, "GA")>>,
      <<Item(2, "VIP")>>,
      <<Item(1, "General"), Item(2, "VIP")>> }
PairActiveItemSets == {{"1"}}
PairOrderLists ==
    { <<>>,
      <<Order("p", "Buyer@Y.com", <<Position(1, "Ann", "X@Y.com")>>)>> }
PairFailPoints == {"fetch", "none"}

\* sync(): the tasks of both pairs are created, each enters saveEventInfo.
SyncPairs(active, otherActive) ==
    /\ taskPc \in {"idle", "done"}
    /\ otherPc \in {"idle", "done"}
    /\ taskPc' = "event"
    /\ taskEvent' = active
    /\ taskLog' = <<>>
    /\ taskWrites' = <<>>
    /\ pretixEvent' = NotFetched
    /\ pretixItems' = NotFetched
    /\ pretixOrders' = NotFetched
    /\ otherPc' = "event"
    /\ otherEvent' = otherActive
    /\ otherLog' = <<>>
    /\ UNCHANGED <<dbVars, histVars, serviceVars>>

\* A phase returns `ok` to the second pair's syncAllPretixForOrganizerAndEvent.
OtherTaskReturns(phase, ok) ==
    /\ otherPc' = NextPhase(phase, ok)
    /\ otherLog' = Append(otherLog, [phase |-> phase, ok |-> ok])
    /\ UNCHANGED <<otherEvent, pretixVars, taskVars, histVars, serviceVars>>

\* saveEventInfo of the second pair: it reads and writes the row of its own
\* eventConfigID, which eventsInfo does not hold.
OtherSaveEventInfo(failAt) ==
    /\ otherPc = "event"
    /\ OtherTaskReturns("event", failAt = "none")
    /\ UNCHANGED dbVars

\* saveItemsInfo of the second pair.
OtherSaveItemsInfo(catalog, failAt) ==
    /\ otherPc = "items"
    /\ UNCHANGED <<eventsInfo, tickets, nextTicketId>>
    /\ IF failAt = "fetch" \/ ActiveItemsMissing(otherEvent, catalog)
       THEN /\ OtherTaskReturns("items", FALSE)
            /\ UNCHANGED <<itemsInfo, nextItemsInfoId>>
       ELSE LET after == ItemsInfoAfterSave(itemsInfo, OtherEventConfigID,
                                            otherEvent, catalog, failAt)
                used == {r.id : r \in after \cup itemsInfo}
                top == IF used = {} THEN 0
                       ELSE CHOOSE m \in used : \A u \in used : u <= m
            IN  /\ top <= MaxItemsInfoId
                /\ itemsInfo' = after
                /\ nextItemsInfoId' =
                      IF top >= nextItemsInfoId THEN top + 1
                      ELSE nextItemsInfoId
                /\ OtherTaskReturns("items", failAt = "none")

\* saveTickets of the second pair.
OtherSaveTickets(orders, failAt) ==
    /\ otherPc = "tickets"
    /\ UNCHANGED <<eventsInfo, itemsInfo, nextItemsInfoId>>
    /\ IF failAt = "fetch"
       THEN /\ OtherTaskReturns("tickets", FALSE)
            /\ UNCHANGED <<tickets, nextTicketId>>
       ELSE LET updatedItemsInfo ==
                    FetchPretixItemsInfoByEvent(itemsInfo, OtherEventConfigID)
                projected == OrdersToDevconnectTickets(orders, updatedItemsInfo)
            IN  \E existing \in Orderings(FetchDevconnectPretixTicketsByEvent(
                                             tickets, itemsInfo, OtherEventConfigID)) :
                LET after == TicketsAfterSave(tickets, projected, existing, failAt)
                    used == {r.id : r \in after}
                    top == IF used = {} THEN 0
                           ELSE CHOOSE m \in used : \A u \in used : u <= m
                IN
                /\ top <= MaxTicketId
                /\ tickets' = after
                /\ nextTicketId' = top + 1
                /\ OtherTaskReturns("tickets", failAt = "none")

PairsRecNext ==
    \/ \E active \in ActiveItemSets, otherActive \in PairActiveItemSets :
          SyncPairs(active, otherActive)
    \/ \E name \in {"Devconnect"}, failAt \in PairFailPoints :
          SaveEventInfo(name, failAt)
    \/ \E catalog \in PairCatalogs, failAt \in PairFailPoints :
          SaveItemsInfo(catalog, failAt)
    \/ \E orders \in PairOrderLists, failAt \in PairFailPoints :
          SaveTickets(orders, failAt)
    \/ \E failAt \in PairFailPoints : OtherSaveEventInfo(failAt)
    \/ \E catalog \in PairCatalogs, failAt \in PairFailPoints :
          OtherSaveItemsInfo(catalog, failAt)
    \/ \E orders \in PairOrderLists, failAt \in PairFailPoints :
          OtherSaveTickets(orders, failAt)

\* StopRecSpec: the pair's task with its data, and stop() called while a cycle
\* is in progress; no cycle is dispatched after it.
StopRecNext ==
    \/ taskPc \in {"event", "items", "tickets"} /\ Stop
    \/ \E active \in ActiveItemSets : ~stopRequested /\ SyncPair(active)
    \/ \E name \in EventNames, failAt \in FailPoints :
          SaveEventInfo(name, failAt)
    \/ \E catalog \in PairCatalogs, failAt \in FailPoints :
          SaveItemsInfo(catalog, failAt)
    \/ \E orders \in PairOrderLists, failAt \in FailPoints :
          SaveTickets(orders, failAt)

\* HealSpec: the pair's task with its data, where the external data (what
\* Pretix holds and the event's activeItemIDs) stays as it is from a failed
\* cycle until a cycle has had its three phases succeed.
PretixSnapshots ==
    [event : {"Devconnect"}, items : PairCatalogs,
     active : ActiveItemSets, orders : OrderLists]

\* The external data changes between two cycles.
PretixChanges(data) ==
    /\ recovering = "no"
    /\ taskPc \in {"idle", "done"}
    /\ pretix' = data
    /\ pretix' # pretix
    /\ UNCHANGED <<recovering, taskVars, otherVars, dbVars, pretixVars, serviceVars>>

HealNext ==
    \/ \E data \in PretixSnapshots : PretixChanges(data)
    \/ SyncPair(pretix.active)
    \/ \E failAt \in FailPoints : SaveEventInfo(pretix.event, failAt)
    \/ \E failAt \in FailPoints : SaveItemsInfo(pretix.items, failAt)
    \/ \E failAt \in FailPoints : SaveTickets(pretix.orders, failAt)

\* Every fetch is answered freely and the failure history is not kept.
InitUntracked == pretix = Unconstrained /\ recovering = "untracked"

\* The service configured with one pair, and with two.
Init == config = {"A"} /\ InitService /\ InitReconciler /\ InitUntracked
PairsInit == config = Pairs /\ InitService /\ InitReconciler /\ InitUntracked
HealInit ==
    /\ config = {"A"} /\ InitService /\ InitReconciler
    /\ pretix \in PretixSnapshots
    /\ recovering = "no"

Spec == Init /\ [][Next]_vars
PairsSpec == PairsInit /\ [][Next]_vars
FairSpec == Spec /\ \A l \in Loops : WF_vars(LoopProgress(l))
RecSpec == Init /\ [][RecNext]_vars
PairsRecSpec == Init /\ [][PairsRecNext]_vars
StopRecSpec == Init /\ [][StopRecNext]_vars
HealSpec == HealInit /\ [][HealNext]_vars

\* ----------------------------------------------------------------- claims
CyclesInFlight == {l \in Loops : inFlight[l]}
RunningLoops == {l \in Loops : Running(l)}
RunningLoopsAfter == {l \in Loops : inFlight'[l] \/ timer'[l] = "pending"}
\* The step is a replaceApi() call: every call installs a new client.
IsReplaceApiStep == pretixAPI' # pretixAPI
\* The step starts a cycle in loop l / settles the cycle of loop l.
CycleStarts(l) == ~inFlight[l] /\ inFlight'[l]
CycleSettles(l) == inFlight[l] /\ ~inFlight'[l]

\* C1: at most one sync cycle (one execution of trySync) is in flight at any
\* time, whatever startSyncLoop / stop / replaceApi calls and timer firings
\* interleave.
C1_AtMostOneCycleInFlight == Cardinality(CyclesInFlight) <= 1

\* C2: after stop() no new cycle starts until startSyncLoop() or replaceApi()
\* is called again, also when stop() came while a cycle was in flight.
C2_NoCycleStartsAfterStop ==
    [][(stopRequested /\ stopRequested') =>
          \A l \in Loops : ~CycleStarts(l)]_vars

\* C3: replaceApi sets hasCompletedSyncSinceStarting to false, and the flag
\* then becomes true only by the completion of a cycle that started after the
\* replacement (one whose first fetches went to the installed client).
C3_FlagFalseUntilFreshCycleCompletes ==
    [][/\ IsReplaceApiStep => ~hasCompletedSyncSinceStarting'
       /\ (~IsReplaceApiStep /\ ~hasCompletedSyncSinceStarting
              /\ hasCompletedSyncSinceStarting') =>
             \E l \in Loops : CycleSettles(l) /\ cycleApi[l] = pretixAPI
      ]_vars

\* C4: replaceApi restarts the loop exactly when it was running: a running
\* loop (cycle in flight or timer pending) leaves exactly one running loop,
\* no running loop leaves none.
C4_ReplaceApiRestartsIffRunning ==
    [][IsReplaceApiStep =>
          /\ RunningLoops # {} => Cardinality(RunningLoopsAfter) = 1
          /\ RunningLoops = {} => RunningLoopsAfter = {}]_vars

\* The step enters the item or the ticket phase of pair p in loop l, whose
\* fetchItems / fetchOrders call goes to the client installed at that moment.
IssuesFetch(l, p) ==
    pc'[l][p] \in {"items", "tickets"} /\ pc'[l][p] # pc[l][p]

\* C5: all the fetches of one cycle are served by the same client, also when
\* replaceApi is called while the cycle is in flight.
C5_OneClientPerCycle ==
    [][\A l \in Loops, p \in Pairs :
          IssuesFetch(l, p) => pretixAPI = cycleApi[l]]_vars

\* C6: within one loop the timer for the next cycle is armed only after the
\* current cycle's trySync has settled: a loop never has a pending timer
\* while its cycle is in flight, so its next cycle cannot start before.
C6_TimerArmedOnlyAfterCycleSettled ==
    \A l \in Loops : ~(inFlight[l] /\ timer[l] = "pending")
\* A timer is pending for a loop whose cycle ended in the catch block.
C6_Witness ==
    \E l \in Loops : timer[l] = "pending" /\ lastOutcome[l] = "threw"

\* C7: a top-level failure is caught in trySync and reported, and the loop
\* goes on: after every settled cycle, failed or not, the loop starts a
\* further cycle unless its timer is cleared by stop() / replaceApi().
C7_FailureReportedAndLoopContinues ==
    /\ [](\A l \in Loops : lastOutcome[l] = "threw" => l \in rollbarReports)
    /\ \A l \in Loops :
          (lastOutcome[l] # "none" /\ ~inFlight[l])
             ~> (inFlight[l] \/ timer[l] = "cleared")
\* A cycle of a loop that had completed cycles before ended in the catch
\* block, was reported, and the loop has armed the timer of its next cycle.
C7_Witness ==
    \E l \in Loops : /\ lastOutcome[l] = "threw" /\ l \in rollbarReports
                     /\ timer[l] = "pending" /\ timeout = l
                     /\ hasCompletedSyncSinceStarting

\* C8: hasCompletedSyncSinceStarting is false at construction and becomes
\* true only when a cycle settles without a top-level error; a cycle aborted
\* at the top level leaves the flag as it was.
C8_FlagSetOnlyByCleanCycle ==
    /\ hasCompletedSyncSinceStarting = FALSE
    /\ [][/\ (~hasCompletedSyncSinceStarting /\ hasCompletedSyncSinceStarting')
             => \E l \in Loops : CycleSettles(l) /\ lastOutcome'[l] = "ok"
          /\ \A l \in Loops :
                (CycleSettles(l) /\ lastOutcome'[l] = "threw") =>
                   hasCompletedSyncSinceStarting' = hasCompletedSyncSinceStarting
         ]_vars
\* A cycle was aborted at the top level and the flag is still false.
C8_Witness ==
    \E l \in Loops : lastOutcome[l] = "threw" /\ ~inFlight[l]
                        /\ ~hasCompletedSyncSinceStarting

\* C9: the phases of a pair run in the order event, items, tickets; a phase
\* starts only after the one before returned success, and a failed phase
\* ends the pair's work for the cycle.
C9_PhasesInOrder ==
    \A l \in Loops, p \in Pairs :
        pc[l][p] # "idle" =>
            LET log == phaseLog[l][p]
                n == Len(log)
            IN  /\ n <= Len(PhaseOrder)
                /\ \A i \in 1..n : /\ log[i].phase = PhaseOrder[i]
                                   /\ i < n => log[i].ok
                /\ pc[l][p] = "done" =>
                      n >= 1 /\ (~log[n].ok \/ n = Len(PhaseOrder))
                /\ pc[l][p] # "done" =>
                      /\ n < Len(PhaseOrder)
                      /\ pc[l][p] = PhaseOrder[n + 1]
                      /\ \A i \in 1..n : log[i].ok
\* A pair whose item phase failed is done without a ticket phase.
C9_Witness ==
    \E l \in Loops, p \in Pairs :
        /\ pc[l][p] = "done"
        /\ Len(phaseLog[l][p]) = 2
        /\ ~phaseLog[l][p][2].ok


\* An id of the task's activeItemIDs is not the id of any item of the catalog
\* fetchItems returned.
ActiveIdAbsentFrom(catalog) ==
    /\ catalog # NotFetched
    /\ \E i \in taskEvent : \A k \in DOMAIN catalog : toString(catalog[k].id) # i

\* C10: if an id in the event's activeItemIDs is absent from the fetched item
\* catalog, the item phase performs no insert, update or delete on the
\* ItemInfo rows, and the ticket phase is not run for the event in that cycle:
\* the task ends after its second phase without fetching orders, and the
\* tickets are as they were.
C10_MissingActiveItemAbortsItemPhase ==
    /\ [][(taskPc = "items" /\ taskPc' # "items" /\ ActiveIdAbsentFrom(pretixItems'))
            => /\ itemsInfo' = itemsInfo
               /\ nextItemsInfoId' = nextItemsInfoId
               /\ tickets' = tickets
               /\ taskPc' = "done"]_vars
    /\ [](ActiveIdAbsentFrom(pretixItems)
            => /\ taskPc = "done"
               /\ Len(taskLog) = 2
               /\ ~taskLog[2].ok
               /\ pretixOrders = NotFetched)

\* An item phase has failed on a missing active id with ItemInfo rows and
\* tickets in the database.
C10_Witness ==
    /\ taskPc = "done"
    /\ ActiveIdAbsentFrom(pretixItems)
    /\ Len(taskLog) = 2 /\ taskLog[2].phase = "items" /\ ~taskLog[2].ok
    /\ itemsInfo # {}
    /\ \E t \in tickets : ~t.is_deleted

\* The task's event phase has returned false.
EventPhaseFailed == Len(taskLog) >= 1 /\ ~taskLog[1].ok

\* C11: if the event metadata phase fails, the pair's item and ticket phases
\* are not run in that cycle (the task ends with the event phase, no catalog
\* and no orders are fetched), and since ItemInfo rows change only in a step of
\* the item phase and ticket rows only in a step of the ticket phase, both are
\* unchanged by that cycle.
C11_FailedEventPhaseEndsTask ==
    /\ [][(taskPc = "event" /\ taskPc' # "event" /\ EventPhaseFailed')
            => /\ taskPc' = "done"
               /\ itemsInfo' = itemsInfo
               /\ tickets' = tickets]_vars
    /\ [](EventPhaseFailed
            => /\ taskPc = "done"
               /\ Len(taskLog) = 1
               /\ pretixItems = NotFetched
               /\ pretixOrders = NotFetched)
    /\ [][(itemsInfo' # itemsInfo => taskPc = "items")
          /\ (tickets' # tickets => taskPc = "tickets")]_vars

\* The event phase has failed in a cycle that found ItemInfo rows and a live
\* ticket in the database.
C11_Witness ==
    /\ taskPc = "done"
    /\ EventPhaseFailed
    /\ itemsInfo # {}
    /\ \E t \in tickets : ~t.is_deleted

\* A phase of pair p has returned false in the cycle loop l has in flight.
PhaseFailedIn(l, p) ==
    \E i \in DOMAIN phaseLog[l][p] : ~phaseLog[l][p][i].ok

\* C12: every phase failure of a pair is reported to the error-reporting
\* collaborator: when sync() returns from a cycle in which a phase of some
\* pair returned false, reportError has been called in that cycle.
C12_PhaseFailureReported ==
    [][\A l \in Loops :
          (/\ stage[l] = "pairs" /\ stage'[l] = "reload"
           /\ \E p \in config : PhaseFailedIn(l, p))
          => l \in rollbarReports']_vars

\* The ItemInfo rows of event e, and the tickets they own.
ItemRowsOf(rows, e) == {r \in rows : r.devconnect_pretix_events_info_id = e}
TicketsOwnedBy(ticketRows, itemRows) ==
    {t \in ticketRows : t.devconnect_pretix_items_info_id \in {r.id : r \in itemRows}}

\* A step of one pair's task while the other pair's task stays where it is.
OtherPairSteps == otherPc' # otherPc /\ taskPc' = taskPc
PairSteps == taskPc' # taskPc /\ otherPc' = otherPc

\* The step leaves the rows of event e and every ticket they do not own as
\* they are, and every ticket it writes is owned by the stepping pair's rows.
LeavesPairAlone(e, stepping) ==
    /\ ItemRowsOf(itemsInfo', e) = ItemRowsOf(itemsInfo, e)
    /\ \A t \in tickets :
          t \notin TicketsOwnedBy(tickets, ItemRowsOf(itemsInfo, stepping))
             => t \in tickets'
    /\ (tickets' \ tickets)
          \subseteq TicketsOwnedBy(tickets', ItemRowsOf(itemsInfo, stepping))

\* C13: a failure in one pair never blocks another.  A step of the second
\* pair's task, failing or not, leaves the first pair's task, event row,
\* ItemInfo rows and tickets as they are (and the other way round); a phase of
\* the first pair that succeeds writes what it would write were its own rows
\* the only ones in the tables; and the first pair's event phase can return
\* whatever the second pair's task has done.
C13_PairFailureIsolated ==
    /\ [][OtherPairSteps
            => /\ LeavesPairAlone(EventConfigID, OtherEventConfigID)
               /\ eventsInfo' = eventsInfo
               /\ UNCHANGED <<taskVars, pretixVars>>]_vars
    /\ [][PairSteps
            => /\ LeavesPairAlone(OtherEventConfigID, EventConfigID)
               /\ UNCHANGED otherVars]_vars
    /\ [][(PairSteps /\ taskPc = "items" /\ taskPc' = "tickets")
            => LET mine == ItemRowsOf(itemsInfo, EventConfigID) IN
               ItemRowsOf(itemsInfo', EventConfigID)
                  = ItemsInfoAfterSave(mine, EventConfigID, taskEvent,
                                       pretixItems', "none")]_vars
    /\ [][(PairSteps /\ taskPc = "tickets" /\ pretixOrders' # NotFetched
           /\ taskLog'[3].ok)
            => LET rows == ItemRowsOf(itemsInfo, EventConfigID)
                   mine == TicketsOwnedBy(tickets, rows)
                   projected == OrdersToDevconnectTickets(pretixOrders', rows)
               IN  \E existing \in Orderings({t \in mine : ~t.is_deleted}) :
                      TicketsOwnedBy(tickets', rows)
                         = TicketsAfterSave(mine, projected, existing, "none")]_vars
    /\ [](taskPc = "event" => ENABLED SaveEventInfo("Devconnect", "none"))

\* The second pair's event phase failed, and in the same cycle the first pair
\* ran its three phases with success and holds a row and a live ticket, and
\* the second pair holds a row and a ticket from an earlier cycle.
C13_Witness ==
    /\ otherPc = "done" /\ Len(otherLog) = 1 /\ ~otherLog[1].ok
    /\ taskPc = "done" /\ Len(taskLog) = 3 /\ taskLog[3].ok
    /\ \E t \in TicketsOwnedBy(tickets, ItemRowsOf(itemsInfo, EventConfigID)) :
          ~t.is_deleted
    /\ TicketsOwnedBy(tickets, ItemRowsOf(itemsInfo, OtherEventConfigID)) # {}

\* A pair task of loop l's cycle is still inside one of its phases.
TaskRunning(l) == \E p \in config : pc[l][p] \in {"event", "items", "tickets"}

\* C14: a cycle completes (sync() returns or rejects, and hence the next timer
\* is armed) only after every pair task dispatched in it has settled: a cycle
\* leaves its pair stage only with every task done, and no task of a loop is
\* running while the loop is past that stage or its timer is pending.
C14_CycleWaitsForEveryTask ==
    /\ [][\A l \in Loops :
            (stage[l] = "pairs" /\ stage'[l] # "pairs") => ~TaskRunning(l)]_vars
    /\ [](\A l \in Loops :
            (stage[l] # "pairs" \/ timer[l] = "pending") => ~TaskRunning(l))

\* With two pairs configured, a cycle has completed without a top-level error
\* and its loop has armed the next timer.
C14_Witness ==
    /\ config = Pairs
    /\ \E l \in Loops :
          /\ lastOutcome[l] = "ok"
          /\ timer[l] = "pending"
          /\ ~inFlight[l]

\* C15: at most one non-deleted ticket record exists per (normalized email,
\* owning item) pair, in every state reached by any sequence of sync cycles,
\* also when the paid orders hold several positions with the same email and
\* the same tracked item.
C15_OneLiveTicketPerEmailAndItem ==
    \A t, u \in tickets :
        (/\ ~t.is_deleted /\ ~u.is_deleted
         /\ GetEmailAndItemKey(t) = GetEmailAndItemKey(u)) => t = u

\* The task's ticket phase has returned true: pretixOrders are the orders it
\* fetched, itemsInfo the rows it projected them with.
TicketPhaseSucceeded == taskPc = "done" /\ Len(taskLog) = 3 /\ taskLog[3].ok

\* C16: ticket-phase idempotence.  After a ticket phase that succeeded, a
\* second ticket phase with the same orders and the same ItemInfo rows has
\* nothing to insert, to update or to soft-delete, in whatever order its fetch
\* returns the existing tickets.
C16_TicketPhaseIdempotent ==
    TicketPhaseSucceeded =>
        LET rows == FetchPretixItemsInfoByEvent(itemsInfo, EventConfigID)
            projected == OrdersToDevconnectTickets(pretixOrders, rows)
        IN  \A existing \in Orderings(FetchDevconnectPretixTicketsByEvent(
                                         tickets, itemsInfo, EventConfigID)) :
               /\ NewTickets(projected, existing) = <<>>
               /\ UpdatedTickets(projected, existing) = <<>>
               /\ RemovedTickets(projected, existing) = <<>>

\* C17: a local ticket whose (email, item) key is no longer produced by the
\* current paid orders is soft-deleted by the ticket phase and its row is
\* retained: after a ticket phase that succeeded, every ticket whose key is not
\* the key of a projected ticket has is_deleted true; and no step removes a
\* ticket row.
C17_UnproducedTicketsSoftDeleted ==
    /\ [](TicketPhaseSucceeded =>
            LET rows == FetchPretixItemsInfoByEvent(itemsInfo, EventConfigID)
                projected == OrdersToDevconnectTickets(pretixOrders, rows)
            IN  \A t \in tickets :
                   GetEmailAndItemKey(t) \notin Keys(Range(projected))
                      => t.is_deleted)
    /\ [][\A t \in tickets : \E u \in tickets' : u.id = t.id]_vars

\* C18: after a ticket phase that returned success, the keys of the event's
\* non-deleted local tickets are the keys of the tickets projected from the
\* fetched paid orders, and each such ticket carries the full name of a
\* projected ticket of its key.
C18_TicketsMatchProjection ==
    TicketPhaseSucceeded =>
        LET rows == FetchPretixItemsInfoByEvent(itemsInfo, EventConfigID)
            projected == Range(OrdersToDevconnectTickets(pretixOrders, rows))
            local == {t \in TicketsOwnedBy(tickets, ItemRowsOf(itemsInfo, EventConfigID)) :
                         ~t.is_deleted}
        IN  /\ Keys(local) = Keys(projected)
            /\ \A t \in local : \E n \in projected :
                  /\ GetEmailAndItemKey(n) = GetEmailAndItemKey(t)
                  /\ n.full_name = t.full_name

\* The task's item phase has returned true: pretixItems is the catalog it
\* fetched, and itemsInfo is as the phase left it.
ItemPhaseSucceeded == Len(taskLog) >= 2 /\ taskLog[2].ok

\* C19: after an item phase that returned success, the event's local ItemInfo
\* rows are exactly the catalog items whose ids are in activeItemIDs, one row
\* per external item id, each with the catalog's current name.
C19_ItemRowsMatchActiveCatalog ==
    ItemPhaseSucceeded =>
        LET rows == ItemRowsOf(itemsInfo, EventConfigID)
            wanted == {it \in Range(pretixItems) : toString(it.id) \in taskEvent}
        IN  /\ \A it \in wanted : \E r \in rows :
                  r.item_id = toString(it.id) /\ r.item_name = it.name
            /\ \A r \in rows : \E it \in wanted :
                  r.item_id = toString(it.id) /\ r.item_name = it.name
            /\ \A r, q \in rows : r.item_id = q.item_id => r = q

\* An item phase has succeeded that renamed the row of item 1 and deleted the
\* row of item 2: the second row inserted is gone, the first has the new name.
C19_Witness ==
    /\ ItemPhaseSucceeded
    /\ taskPc = "tickets"
    /\ nextItemsInfoId = 3
    /\ itemsInfo = {[id |-> 1, item_id |-> "1",
                     devconnect_pretix_events_info_id |-> EventConfigID,
                     item_name |-> "GA"]}
    /\ pretixItems = <<Item(1, "GA")>>

\* The positions of the paid orders whose item has one of the rows, in the
\* order of the orders and, within one order, of its positions; each with the
\* purchaser's email.
RECURSIVE PaidTrackedPositions(_, _)
PaidTrackedPositions(orders, rows) ==
    IF orders = <<>> THEN <<>>
    ELSE LET o == Head(orders)
             tracked == SelectSeq(o.positions,
                           LAMBDA pos : \E r \in rows : r.item_id = toString(pos.item))
             here == IF o.status = "p"
                     THEN [i \in DOMAIN tracked |->
                              [position |-> tracked[i], purchaser |-> o.email]]
                     ELSE <<>>
         IN  here \o PaidTrackedPositions(Tail(orders), rows)

\* The lower-case form of the attendee emails of OrderLists.
LowerCased(email) == IF email = "X@Y.com" THEN "x@y.com" ELSE email

\* C20: for every paid order position whose item is tracked and which has an
\* attendee email, ticket projection yields exactly one ticket record for that
\* position (the projection has one record per paid tracked position, in
\* their order), with the attendee email lower-cased, the owning ItemInfo's
\* local id, and is_deleted false.
C20_ProjectionOfPaidTrackedPositions ==
    pretixOrders # NotFetched =>
        LET rows == ItemRowsOf(itemsInfo, EventConfigID)
            positions == PaidTrackedPositions(pretixOrders, rows)
            projected == OrdersToDevconnectTickets(pretixOrders, rows)
        IN  /\ Len(projected) = Len(positions)
            /\ \A i \in DOMAIN positions :
                  LET pos == positions[i].position IN
                  pos.attendee_email # "" =>
                     /\ projected[i].email = LowerCased(pos.attendee_email)
                     /\ projected[i].email \in {"x@y.com", "buyer@y.com"}
                     /\ \E r \in rows :
                           /\ r.item_id = toString(pos.item)
                           /\ projected[i].devconnect_pretix_items_info_id = r.id
                     /\ projected[i].full_name = pos.attendee_name
                     /\ ~projected[i].is_deleted

\* The ticket phase has projected a paid order with two tracked positions, one
\* with the attendee email "X@Y.com" and one without an attendee email, and
\* the ticket of the former is stored under the row of item 2.
C20_Witness ==
    /\ TicketPhaseSucceeded
    /\ pretixOrders =
          <<Order("p", "Buyer@Y.com",
                  <<Position(1, "Bob", ""), Position(2, "Ann", "X@Y.com")>>)>>
    /\ {r.item_id : r \in ItemRowsOf(itemsInfo, EventConfigID)} = {"1", "2"}
    /\ \E t \in tickets, r \in ItemRowsOf(itemsInfo, EventConfigID) :
          /\ ~t.is_deleted /\ t.email = "x@y.com" /\ t.full_name = "Ann"
          /\ r.item_id = "2" /\ t.devconnect_pretix_items_info_id = r.id

\* C21: an order whose status is not "p" contributes no record to the ticket
\* projection, whatever its positions contain: the projection of the fetched
\* orders equals the projection of its paid orders alone, and is empty when no
\* fetched order is paid.
C21_UnpaidOrdersYieldNoTicket ==
    pretixOrders # NotFetched =>
        LET rows == ItemRowsOf(itemsInfo, EventConfigID)
            paid == SelectSeq(pretixOrders, LAMBDA o : o.status = "p")
        IN  /\ \A i \in DOMAIN pretixOrders :
                  pretixOrders[i].status # "p" =>
                      OrderToTickets(pretixOrders[i], rows) = <<>>
            /\ OrdersToDevconnectTickets(pretixOrders, rows)
                  = OrdersToDevconnectTickets(paid, rows)
            /\ paid = <<>> => OrdersToDevconnectTickets(pretixOrders, rows) = <<>>

\* The ticket phase has succeeded over an unpaid order on a tracked item whose
\* ticket it stored in an earlier cycle, when the order was paid: the ticket
\* is now soft-deleted and no live ticket is left.
C21_Witness ==
    /\ TicketPhaseSucceeded
    /\ pretixOrders =
          <<Order("n", "Buyer@Y.com", <<Position(1, "Ann", "X@Y.com")>>)>>
    /\ \E r \in ItemRowsOf(itemsInfo, EventConfigID) :
          /\ r.item_id = "1"
          /\ \E t \in tickets : /\ t.devconnect_pretix_items_info_id = r.id
                                /\ t.email = "x@y.com" /\ t.is_deleted
    /\ \A t \in tickets : t.is_deleted

\* C22: a paid, tracked position with no attendee email is not dropped: the
\* projection has one record per paid tracked position, and the record of a
\* position without attendee email carries the purchaser's email of its order
\* in lower case.  The missing email does not fail the ticket phase: when the
\* phase has succeeded over such orders, a live ticket with the purchaser's
\* email is stored under the row of the position's item.
C22_MissingAttendeeEmailFallsBackToPurchaser ==
    pretixOrders # NotFetched =>
        LET rows == ItemRowsOf(itemsInfo, EventConfigID)
            positions == PaidTrackedPositions(pretixOrders, rows)
            projected == OrdersToDevconnectTickets(pretixOrders, rows)
        IN  /\ Len(projected) = Len(positions)
            /\ \A i \in DOMAIN positions :
                  positions[i].position.attendee_email = "" =>
                     /\ positions[i].purchaser \in {"Buyer@Y.com", "x@y.com"}
                     /\ projected[i].email =
                           (IF positions[i].purchaser = "Buyer@Y.com"
                            THEN "buyer@y.com" ELSE "x@y.com")
                     /\ projected[i].full_name = positions[i].position.attendee_name
                     /\ TicketPhaseSucceeded =>
                           \E t \in tickets, r \in rows :
                              /\ ~t.is_deleted
                              /\ t.email = projected[i].email
                              /\ r.item_id = toString(positions[i].position.item)
                              /\ t.devconnect_pretix_items_info_id = r.id

\* The ticket phase has succeeded over a paid order whose position on the
\* tracked item 1 has no attendee email, and Bob's ticket is stored under the
\* purchaser's email.
C22_Witness ==
    /\ TicketPhaseSucceeded
    /\ pretixOrders =
          <<Order("p", "Buyer@Y.com",
                  <<Position(1, "Bob", ""), Position(2, "Ann", "X@Y.com")>>)>>
    /\ \E t \in tickets, r \in ItemRowsOf(itemsInfo, EventConfigID) :
          /\ ~t.is_deleted /\ t.email = "buyer@y.com" /\ t.full_name = "Bob"
          /\ r.item_id = "1" /\ t.devconnect_pretix_items_info_id = r.id

\* The step is a phase of the pair's task returning false.
PhaseFails ==
    /\ Len(taskLog') = Len(taskLog) + 1
    /\ ~taskLog'[Len(taskLog')].ok

\* C24: the changes of one phase are applied transactionally: a phase that
\* returns false because a write was rejected partway leaves none of its
\* writes in the tables.
C24_FailedPhaseLeavesNoWrite ==
    [][PhaseFails =>
          /\ eventsInfo' = eventsInfo
          /\ itemsInfo' = itemsInfo
          /\ tickets' = tickets]_vars

\* C27: within the item phase and within the ticket phase the writes are
\* applied in the order inserts, updates, deletes: in the writes a phase has
\* completed, no update comes before an insert and no delete comes before an
\* insert or an update.
WriteRank(w) == CASE w = "insert" -> 1 [] w = "update" -> 2 [] w = "delete" -> 3

C27_InsertsThenUpdatesThenDeletes ==
    \A i, j \in DOMAIN taskWrites :
        i < j => WriteRank(taskWrites[i]) <= WriteRank(taskWrites[j])

\* The ticket phase has returned true after it updated one ticket and then
\* soft-deleted another.
C27_Witness ==
    /\ TicketPhaseSucceeded
    /\ taskWrites = <<"update", "delete">>

\* The step is the event phase of the pair's task returning true.
EventPhaseSucceeds ==
    /\ taskLog = <<>>
    /\ Len(taskLog') = 1
    /\ taskLog'[1].ok

\* C28: a successful event phase inserts the row when there is none, updates
\* it only when the fetched name differs from the stored one, writes nothing
\* when the name is unchanged, and leaves the fetched name stored.
C28_EventRowWrittenOnlyOnChange ==
    [][EventPhaseSucceeds =>
          /\ eventsInfo = NoRow => taskWrites' = <<"insert">>
          /\ (eventsInfo # NoRow /\ eventsInfo # pretixEvent') =>
                taskWrites' = <<"update">>
          /\ eventsInfo = pretixEvent' => taskWrites' = <<>>
          /\ eventsInfo' = pretixEvent']_vars

\* Phase `phase` has run (its fetch was issued and it returned) in the cycle
\* of loop l for pair p.
HasRun(l, p, phase) ==
    \E i \in DOMAIN phaseLog[l][p] : phaseLog[l][p][i].phase = phase

\* C29: there is no in-cycle retry.  Within one cycle no phase of a pair is
\* entered twice, so each of fetchEvent, fetchItems and fetchOrders is called
\* at most once per pair: the phase a task is in has not run before in the
\* cycle and no phase is logged twice.  After a failed phase the task is done,
\* and the event phase is entered again only when a cycle starts.
C29_NoInCycleRetry ==
    /\ [](\A l \in Loops, p \in Pairs :
            /\ pc[l][p] \in {"event", "items", "tickets"} => ~HasRun(l, p, pc[l][p])
            /\ \A i, j \in DOMAIN phaseLog[l][p] :
                  phaseLog[l][p][i].phase = phaseLog[l][p][j].phase => i = j
            /\ (\E i \in DOMAIN phaseLog[l][p] : ~phaseLog[l][p][i].ok)
                  => pc[l][p] = "done")
    /\ [][\A l \in Loops, p \in Pairs :
            (pc'[l][p] = "event" /\ pc[l][p] # "event") => CycleStarts(l)]_vars

\* The event phase of a pair has failed and the cycle is still in flight:
\* the task is done with the one attempt logged.
C29_Witness ==
    \E l \in Loops, p \in Pairs :
        /\ inFlight[l] /\ stage[l] = "pairs"
        /\ pc[l][p] = "done"
        /\ phaseLog[l][p] = <<[phase |-> "event", ok |-> FALSE]>>

\* The step is the first stop() call.
StopCalled == ~stopRequested /\ stopRequested'

\* The step is a phase of the pair's task returning true.
PhaseSucceeds ==
    /\ Len(taskLog') = Len(taskLog) + 1
    /\ taskLog'[Len(taskLog')].ok

\* C30: stop() does not interrupt in-flight work.  A stop() call changes
\* neither the task of the cycle in progress nor the tables; after it the
\* phase the task is in can still return, and a phase that returns true has
\* applied its whole change-set and hands over to the next phase, as without
\* the call.
C30_StopLeavesCycleInFlight ==
    /\ [][StopCalled => UNCHANGED <<taskVars, dbVars, pretixVars>>]_vars
    /\ [](stopRequested =>
            /\ taskPc = "event" =>
                  ENABLED (\E name \in EventNames : SaveEventInfo(name, "none"))
            /\ taskPc = "items" =>
                  ENABLED (\E catalog \in PairCatalogs, failAt \in FailPoints :
                              SaveItemsInfo(catalog, failAt))
            /\ taskPc = "tickets" =>
                  ENABLED (\E orders \in PairOrderLists, failAt \in FailPoints :
                              SaveTickets(orders, failAt)))
    /\ [][(stopRequested /\ PhaseSucceeds) =>
            /\ taskPc' = NextPhase(taskPc, TRUE)
            /\ taskPc = "event" => eventsInfo' = pretixEvent'
            /\ taskPc = "items" =>
                  itemsInfo' = ItemsInfoAfterSave(itemsInfo, EventConfigID,
                                                  taskEvent, pretixItems', "none")
            /\ taskPc = "tickets" =>
                  \E existing \in Orderings(FetchDevconnectPretixTicketsByEvent(
                                               tickets, itemsInfo, EventConfigID)) :
                     tickets' = TicketsAfterSave(
                                   tickets,
                                   OrdersToDevconnectTickets(
                                      pretixOrders',
                                      ItemRowsOf(itemsInfo, EventConfigID)),
                                   existing, "none")]_vars

\* stop() was called during a cycle, and the cycle has gone on to complete
\* its ticket phase, inserting a ticket.
C30_Witness ==
    /\ stopRequested
    /\ TicketPhaseSucceeded
    /\ taskWrites = <<"insert">>
    /\ \E t \in tickets : ~t.is_deleted

\* The step is an item phase, or a ticket phase, that has fetched from Pretix
\* and computed its change-set from the rows as they are before the step.
ItemChangeSetComputed ==
    /\ taskPc = "items"
    /\ pretixItems' # NotFetched
    /\ ~ActiveItemsMissing(taskEvent, pretixItems')
TicketChangeSetComputed ==
    /\ taskPc = "tickets"
    /\ pretixOrders' # NotFetched

\* The three lists are pairwise disjoint by key.
DisjointByKey(insertKeys, updateKeys, deleteKeys) ==
    /\ insertKeys \cap updateKeys = {}
    /\ insertKeys \cap deleteKeys = {}
    /\ updateKeys \cap deleteKeys = {}

\* C25: the change-set of the item phase and of the ticket phase is
\* to-insert = the desired entities whose key is not among the existing ones,
\* to-update = the desired entities whose key is among the existing ones and
\* whose payload differs from that of an existing entity with the key,
\* to-delete = the existing entities whose key is not among the desired ones,
\* and the three lists are pairwise disjoint by key.
C25_ChangeSetByKey ==
    /\ [][ItemChangeSetComputed =>
            LET desired == NewActiveItems(taskEvent, pretixItems')
                existing == ItemRowsOf(itemsInfo, EventConfigID)
                toInsert == Range(ItemsToInsert(desired, existing))
                toUpdate == Range(ItemsToUpdate(desired, existing))
                toDelete == ItemsToRemove(desired, existing)
            IN  /\ toInsert = {d \in Range(desired) :
                                  \A e \in existing : e.item_id # toString(d.id)}
                /\ toUpdate = {d \in Range(desired) :
                                  \E e \in existing : /\ e.item_id = toString(d.id)
                                                      /\ e.item_name # d.name}
                /\ toDelete = {e \in existing :
                                  \A d \in Range(desired) : e.item_id # toString(d.id)}
                /\ DisjointByKey({toString(d.id) : d \in toInsert},
                                 {toString(d.id) : d \in toUpdate},
                                 {e.item_id : e \in toDelete})]_vars
    /\ [][TicketChangeSetComputed =>
            LET desired == OrdersToDevconnectTickets(
                               pretixOrders', ItemRowsOf(itemsInfo, EventConfigID))
                fetched == FetchDevconnectPretixTicketsByEvent(
                               tickets, itemsInfo, EventConfigID)
            IN  \A existing \in Orderings(fetched) :
                LET toInsert == Range(NewTickets(desired, existing))
                    toUpdate == Range(UpdatedTickets(desired, existing))
                    toDelete == Range(RemovedTickets(desired, existing))
                IN  /\ toInsert = {d \in Range(desired) :
                                      \A e \in fetched : GetEmailAndItemKey(e)
                                                           # GetEmailAndItemKey(d)}
                    /\ toUpdate = {d \in Range(desired) :
                                      \E e \in fetched :
                                         /\ GetEmailAndItemKey(e) = GetEmailAndItemKey(d)
                                         /\ e.full_name # d.full_name}
                    /\ toDelete = {e \in fetched :
                                      \A d \in Range(desired) :
                                         GetEmailAndItemKey(e) # GetEmailAndItemKey(d)}
                    /\ DisjointByKey(Keys(toInsert), Keys(toUpdate),
                                     Keys(toDelete))]_vars

\* The sequences with the elements of seq in another order.
Reorderings(seq) ==
    {[i \in DOMAIN seq |-> seq[f[i]]] :
        f \in {g \in [DOMAIN seq -> DOMAIN seq] :
                  \A i, j \in DOMAIN seq : g[i] = g[j] => i = j}}

\* C26: the change-set is stable under input reordering: the to-insert,
\* to-update and to-delete sets of the item phase are the same for every
\* order of the desired items, and those of the ticket phase are the same for
\* every order of the desired tickets and every order of the existing ones,
\* also when several of them have the same key.
C26_ChangeSetStableUnderReordering ==
    /\ [][ItemChangeSetComputed =>
            LET desired == NewActiveItems(taskEvent, pretixItems')
                existing == ItemRowsOf(itemsInfo, EventConfigID)
            IN  \A other \in Reorderings(desired) :
                   /\ Range(ItemsToInsert(other, existing))
                         = Range(ItemsToInsert(desired, existing))
                   /\ Range(ItemsToUpdate(other, existing))
                         = Range(ItemsToUpdate(desired, existing))
                   /\ ItemsToRemove(other, existing)
                         = ItemsToRemove(desired, existing)]_vars
    /\ [][TicketChangeSetComputed =>
            LET desired == OrdersToDevconnectTickets(
                               pretixOrders', ItemRowsOf(itemsInfo, EventConfigID))
                fetched == FetchDevconnectPretixTicketsByEvent(
                               tickets, itemsInfo, EventConfigID)
            IN  \A d1, d2 \in Reorderings(desired) :
                \A e1, e2 \in Orderings(fetched) :
                   /\ Range(NewTickets(d1, e1)) = Range(NewTickets(d2, e2))
                   /\ Range(UpdatedTickets(d1, e1)) = Range(UpdatedTickets(d2, e2))
                   /\ Range(RemovedTickets(d1, e1))
                         = Range(RemovedTickets(d2, e2))]_vars

\* The pair's local state as its phases read it: the event name, the item id
\* and name of its item rows, and its live tickets, each with email, name and
\* the item id of the row it is stored under.
LocalView(event, itemRows, ticketRows) ==
    LET rows == ItemRowsOf(itemRows, EventConfigID)
        live == FetchDevconnectPretixTicketsByEvent(ticketRows, itemRows,
                                                    EventConfigID)
    IN  [event |-> event,
         items |-> {<<r.item_id, r.item_name>> : r \in rows},
         tickets |-> {<<t.email, t.full_name,
                        (CHOOSE r \in rows :
                            r.id = t.devconnect_pretix_items_info_id).item_id>> :
                         t \in live},
         nTickets |-> Cardinality(live)]

\* The local state a reconciliation of the external data `data` without any
\* fault produces from empty tables.
FaultFreeView(data) ==
    LET itemRows == ItemsInfoAfterSave({}, EventConfigID, data.active,
                                       data.items, "none")
        projected == OrdersToDevconnectTickets(data.orders, itemRows)
        ticketRows == TicketsAfterSave({}, projected, <<>>, "none")
    IN  LocalView(data.event, itemRows, ticketRows)

\* The step completes a cycle whose three phases succeeded against the
\* external data `pretix`, the first such cycle after a cycle that failed.
HealingCycleCompletes ==
    /\ recovering = "yes"
    /\ taskPc = "tickets"
    /\ PhaseSucceeds
    /\ pretixEvent' = pretix.event
    /\ pretixItems' = pretix.items
    /\ pretixOrders' = pretix.orders

\* C23: self-healing.  From the local state left by a cycle that failed
\* between or inside its phases, one later cycle whose three phases succeed
\* against the unchanged external data brings the pair's event, items and
\* live tickets to the state a fault-free reconciliation of that data
\* produces.
C23_SelfHealing ==
    [][HealingCycleCompletes =>
          LocalView(eventsInfo', itemsInfo', tickets') = FaultFreeView(pretix)]_vars

\* C31: after a cycle in which the pair's three phases succeeded, every
\* non-deleted local ticket references an ItemInfo row that still exists: the
\* tickets owned by a row that the item phase hard-deleted have been
\* soft-deleted by the ticket phase of the same cycle.
C31_LiveTicketsReferenceExistingItemInfo ==
    TicketPhaseSucceeded =>
        \A t \in tickets :
            ~t.is_deleted =>
                t.devconnect_pretix_items_info_id \in {r.id : r \in itemsInfo}

\* C32: a ticket that was soft-deleted in an earlier cycle and whose paid
\* position reappears in the fetched orders is represented by a non-deleted
\* ticket record of its (email, item) key after the next ticket phase that
\* succeeds: after a successful ticket phase, every soft-deleted ticket whose
\* key is the key of a ticket projected from the fetched orders has a
\* non-deleted ticket of the same key beside it, and so has every projected
\* ticket (also one whose item has a new ItemInfo row since the soft-delete).
C32_ReappearingTicketIsLiveAgain ==
    TicketPhaseSucceeded =>
        LET rows == FetchPretixItemsInfoByEvent(itemsInfo, EventConfigID)
            projected == OrdersToDevconnectTickets(pretixOrders, rows)
            LiveOfKey(key) ==
                \E u \in tickets : ~u.is_deleted /\ GetEmailAndItemKey(u) = key
        IN  /\ \A t \in tickets :
                  (t.is_deleted /\ GetEmailAndItemKey(t) \in Keys(Range(projected)))
                     => LiveOfKey(GetEmailAndItemKey(t))
            /\ \A n \in Range(projected) : LiveOfKey(GetEmailAndItemKey(n))

\* A ticket phase has succeeded whose orders produce the key of a ticket that
\* an earlier cycle soft-deleted: the old row is kept, deleted, and a new row of
\* the key is live.
C32_Witness ==
    /\ TicketPhaseSucceeded
    /\ \E t, u \in tickets :
          /\ t.is_deleted /\ ~u.is_deleted
          /\ t.id < u.id
          /\ GetEmailAndItemKey(u) = GetEmailAndItemKey(t)
          /\ GetEmailAndItemKey(t) \in
                Keys(Range(OrdersToDevconnectTickets(
                    pretixOrders,
                    FetchPretixItemsInfoByEvent(itemsInfo, EventConfigID))))

\* C33: a phase failure of a pair is no top-level abort.  A cycle whose sync
\* and reload went through sets hasCompletedSyncSinceStarting, also when every
\* configured pair failed in some phase of it; a cycle that ended in the catch
\* block leaves the flag as it was; and the flag goes from true to false only
\* in a replaceApi() call.
C33_PairFailuresDoNotAbortTheCycle ==
    [][/\ \A l \in Loops :
             (CycleSettles(l) /\ lastOutcome'[l] = "ok") =>
                hasCompletedSyncSinceStarting'
       /\ \A l \in Loops :
             (CycleSettles(l) /\ lastOutcome'[l] = "threw") =>
                hasCompletedSyncSinceStarting' = hasCompletedSyncSinceStarting
       /\ (hasCompletedSyncSinceStarting /\ ~hasCompletedSyncSinceStarting')
             => IsReplaceApiStep
      ]_vars
\* With two pairs configured, a cycle in which both pairs failed in a phase has
\* settled without a top-level error, and the flag is true.
C33_Witness ==
    /\ config = Pairs
    /\ hasCompletedSyncSinceStarting
    /\ \E l \in Loops : /\ ~inFlight[l]
                        /\ lastOutcome[l] = "ok"
                        /\ failedPairs[l] = Pairs

=============================================================================
